---- MODULE Spec2Model ----
(***************************************************************************)
(* A model of rclpy's AsyncParameterClient (rclpy/parameter_client.py).    *)
(*                                                                         *)
(* The client owns six service clients (one per parameter service of the   *)
(* remote node).  Every operation builds a request, hands it to one of the *)
(* six clients with call_async, optionally registers a done-callback on    *)
(* the returned Future and returns the Future.  service_is_ready and       *)
(* wait_for_service combine the six clients' readiness.                    *)
(*                                                                         *)
(* rclpy.client.Client (call_async, wait_for_service), rclpy.task.Future   *)
(* and rclpy.parameter.Parameter are not part of parameter_client.py; they *)
(* are modelled from the specification's description of the collaborators. *)
(***************************************************************************)
EXTENDS Integers, Sequences, FiniteSets, TLC

VARIABLES
    clients,      \* the six service-client attributes: attribute -> service
    ready,        \* transport collaborator: service -> link established
    outbox,       \* transport collaborator: service -> requests dispatched
    futures,      \* the Futures created so far (index = identity)
    cbLog,        \* invocations of user callbacks, in order
    returned,     \* the Futures handed back to the caller, in order
    pc,           \* position of the caller thread inside the client
    frame,        \* method and arguments of the current (or last) call
    future,       \* local variable `future` of the current call
    ret,          \* outcome of the current (or last) call
    calls,        \* number of calls made on the client
    now,          \* the wall clock read by time.time()
    timeout_sec,  \* wait_for_service: parameter `timeout_sec` (reassigned)
    prev,         \* wait_for_service: local `prev`
    fnIdx,        \* wait_for_service: position in client_wait_fns
    waitLog       \* wait_for_service: the underlying waits invoked so far

vars == <<clients, ready, outbox, futures, cbLog, returned, pc, frame, future,
          ret, calls, now, timeout_sec, prev, fnIdx, waitLog>>

callVars == <<outbox, futures, cbLog, returned, future>>
waitVars == <<now, timeout_sec, prev, fnIdx, waitLog>>

-----------------------------------------------------------------------------
(* Bounds of the model.                                                    *)

MaxCalls == 1
MaxLen == 2
MaxTime == 3

-----------------------------------------------------------------------------
(* Python values.                                                          *)

\* Optional[X]: None is the empty tuple, a present value x is <<x>>.
None == <<>>
Some(x) == <<x>>

\* Python's all([...]) over a list of booleans.
all(bools) == \A k \in 1..Len(bools) : bools[k]

\* Sequences over S of length at most n.
SeqsUpTo(S, n) == UNION {[1..k -> S] : k \in 0..n}

ParamNames == {"a", "b"}
NameSeqs == SeqsUpTo(ParamNames, MaxLen)

\* Optional[Callable]: no callback, or the caller's function.
Callbacks == {None, Some("cb")}

-----------------------------------------------------------------------------
(* rclpy.parameter.Parameter and rcl_interfaces.msg.Parameter.             *)

\* rcl_interfaces.msg.ParameterValue with the fields the model uses.
ParameterValueMsg(type, b, n) ==
    [type |-> type, bool_value |-> b, integer_value |-> n]

ParameterMsg(name, value) == [cls |-> "ParameterMsg", name |-> name, value |-> value]

\* Parameter.Type.<X>.value: the ParameterType tag of the message.
TypeValue(type_) ==
    CASE type_ = "NOT_SET" -> 0
      [] type_ = "BOOL"    -> 1
      [] type_ = "INTEGER" -> 2

\* The Python value a Parameter holds, written as Python prints it, and its
\* conversion to the typed field of the message.
PyBool(v) == v = "True"

PyInt(v) ==
    CASE v = "0" -> 0
      [] v = "1" -> 1
      [] v = "2" -> 2

\* Parameter(name, type_, value); Parameter(name=i) has type NOT_SET, no value.
Parameter(name, type_, value) ==
    [cls |-> "Parameter", name |-> name, type_ |-> type_, value |-> value]

ParameterOfName(name) == Parameter(name, "NOT_SET", "None")

\* Parameter.get_parameter_value(): the field of the declared type is set,
\* every other field keeps the message's default.
get_parameter_value(p) ==
    CASE p.type_ = "BOOL"    -> ParameterValueMsg(TypeValue(p.type_), PyBool(p.value), 0)
      [] p.type_ = "INTEGER" -> ParameterValueMsg(TypeValue(p.type_), FALSE, PyInt(p.value))
      [] OTHER               -> ParameterValueMsg(TypeValue(p.type_), FALSE, 0)

to_parameter_msg(p) == ParameterMsg(p.name, get_parameter_value(p))

isinstance_Parameter(i) == i.cls = "Parameter"

\* The elements a caller passes to set_parameters: rich values and
\* already-serialized descriptors.
RichParameters ==
    { Parameter("a", "BOOL", "True"),
      Parameter("b", "INTEGER", "2"),
      ParameterOfName("a") }

SerializedParameters ==
    { ParameterMsg("b", ParameterValueMsg(1, FALSE, 0)),
      ParameterMsg("a", ParameterValueMsg(2, FALSE, 1)) }

ParameterSeqs == SeqsUpTo(RichParameters \cup SerializedParameters, MaxLen)

-----------------------------------------------------------------------------
(* Construction.                                                           *)

Services ==
    {"get_parameters", "list_parameters", "set_parameters",
     "get_parameter_types", "describe_parameters", "set_parameters_atomically"}

\* __init__: one client per service of the remote node.
create_clients ==
    [a \in {"_get_parameter_client", "_list_parameter_client",
            "_set_parameter_client", "_get_parameter_types_client",
            "_describe_parameters_client", "_set_parameters_atomically_client"} |->
        CASE a = "_get_parameter_client"             -> "get_parameters"
          [] a = "_list_parameter_client"            -> "list_parameters"
          [] a = "_set_parameter_client"             -> "set_parameters"
          [] a = "_get_parameter_types_client"       -> "get_parameter_types"
          [] a = "_describe_parameters_client"       -> "describe_parameters"
          [] a = "_set_parameters_atomically_client" -> "set_parameters_atomically"]

NoFrame == [fn |-> "none"]
NoReturn == [kind |-> "none"]

InitClient ==
    /\ clients = create_clients
    /\ outbox = [s \in Services |-> <<>>]
    /\ futures = <<>>
    /\ cbLog = <<>>
    /\ returned = <<>>
    /\ pc = "idle"
    /\ frame = NoFrame
    /\ future = 0
    /\ ret = NoReturn
    /\ calls = 0
    /\ now = 0
    /\ timeout_sec = None
    /\ prev = 0
    /\ fnIdx = 1
    /\ waitLog = <<>>

\* After construction no link is established yet.
Init == InitClient /\ ready = [s \in Services |-> FALSE]

\* The state after the links of all six services have been established.
InitReady == InitClient /\ ready = [s \in Services |-> TRUE]

-----------------------------------------------------------------------------
(* rclpy.task.Future, from the specification's Pending Operation.          *)

NewFuture == [state |-> "pending", callbacks |-> <<>>]

Invocation(f, by) == [future |-> f, state |-> futures[f].state, by |-> by]

\* Future.add_done_callback: a pending Future stores the callback, a
\* completed one has it invoked right away.
add_done_callback(f, callback) ==
    IF futures[f].state = "pending"
    THEN /\ futures' = [futures EXCEPT ![f].callbacks = Append(@, callback)]
         /\ cbLog' = cbLog
    ELSE /\ cbLog' = Append(cbLog, Invocation(f, "add_done_callback"))
         /\ futures' = futures

\* The dispatch layer completes a pending Future exactly once (the response
\* arrived, or the call failed) and invokes the registered callbacks.
Complete(f, outcome) ==
    /\ f \in 1..Len(futures)
    /\ futures[f].state = "pending"
    /\ futures' = [futures EXCEPT ![f].state = outcome]
    /\ cbLog' = cbLog \o [k \in 1..Len(futures[f].callbacks) |->
                            [future |-> f, state |-> outcome, by |-> "completion"]]
    /\ UNCHANGED <<clients, ready, outbox, returned, pc, frame, future, ret, calls>>
    /\ UNCHANGED waitVars

set_result == \E f \in 1..Len(futures) : Complete(f, "completed")

set_exception == \E f \in 1..Len(futures) : Complete(f, "failed")

-----------------------------------------------------------------------------
(* rclpy.client.Client, from the specification's ClientHandle.             *)

\* Variant: callAsync that dispatches without looking at the link.
call_async_unchecked(c, request) ==
    /\ outbox' = [outbox EXCEPT ![c] = Append(@, request)]
    /\ futures' = Append(futures, NewFuture)
    /\ future' = Len(futures) + 1
    /\ pc' = "attach"
    /\ ret' = NoReturn
    /\ UNCHANGED <<cbLog, returned>>

\* ClientHandle.callAsync: fails fast when the link is not established,
\* otherwise dispatches the request and returns a new Pending Operation.
call_async(c, request) ==
    IF ready[c]
    THEN /\ outbox' = [outbox EXCEPT ![c] = Append(@, request)]
         /\ futures' = Append(futures, NewFuture)
         /\ future' = Len(futures) + 1
         /\ pc' = "attach"
         /\ ret' = NoReturn
         /\ UNCHANGED <<cbLog, returned>>
    ELSE /\ pc' = "idle"
         /\ ret' = [kind |-> "raise"]
         /\ UNCHANGED callVars

\* The link of one service is established or lost.
SetReady(s, b) ==
    /\ ready[s] # b
    /\ ready' = [ready EXCEPT ![s] = b]
    /\ UNCHANGED <<clients, pc, frame, ret, calls>>
    /\ UNCHANGED callVars
    /\ UNCHANGED waitVars

-----------------------------------------------------------------------------
(* The operations of AsyncParameterClient.                                 *)

\* A call enters the client: the caller thread is outside the client.
Enter(f) ==
    /\ pc = "idle"
    /\ calls < MaxCalls
    /\ calls' = calls + 1
    /\ frame' = f

\* Variant: the list without its last probe.
ReadyProbes_FiveOnly ==
    << ready[clients["_list_parameter_client"]],
       ready[clients["_set_parameter_client"]],
       ready[clients["_get_parameter_client"]],
       ready[clients["_get_parameter_types_client"]],
       ready[clients["_describe_parameters_client"]] >>

\* The six probes of service_is_ready, in the order of the list.
ReadyProbes ==
    << ready[clients["_list_parameter_client"]],
       ready[clients["_set_parameter_client"]],
       ready[clients["_get_parameter_client"]],
       ready[clients["_get_parameter_types_client"]],
       ready[clients["_describe_parameters_client"]],
       ready[clients["_set_parameters_atomically_client"]] >>

service_is_ready ==
    /\ Enter([fn |-> "service_is_ready"])
    /\ ret' = [kind |-> "bool", val |-> all(ReadyProbes)]
    /\ pc' = "idle"
    /\ UNCHANGED <<clients, ready>>
    /\ UNCHANGED callVars
    /\ UNCHANGED waitVars

\* Variant: request.depth left at the default of the signature.
ListRequest_DefaultDepth(prefixes, depth) ==
    [srv |-> "ListParameters",
     prefixes |-> IF prefixes # None /\ prefixes[1] # <<>> THEN prefixes[1] ELSE <<>>,
     depth |-> 1]

\* request.prefixes is assigned only for a truthy `prefixes`; otherwise the
\* request keeps the message's default, the empty list.  request.depth is
\* assigned whatever integer was passed.
ListRequest(prefixes, depth) ==
    [srv |-> "ListParameters",
     prefixes |-> IF prefixes # None /\ prefixes[1] # <<>> THEN prefixes[1] ELSE <<>>,
     depth |-> depth]

list_parameters(prefixes, depth, callback) ==
    /\ Enter([fn |-> "list_parameters", prefixes |-> prefixes, depth |-> depth,
              callback |-> callback])
    /\ call_async(clients["_list_parameter_client"], ListRequest(prefixes, depth))
    /\ UNCHANGED <<clients, ready>>
    /\ UNCHANGED waitVars

get_parameters(names, callback) ==
    /\ Enter([fn |-> "get_parameters", names |-> names, callback |-> callback])
    /\ call_async(clients["_get_parameter_client"],
                  [srv |-> "GetParameters", names |-> names])
    /\ UNCHANGED <<clients, ready>>
    /\ UNCHANGED waitVars

\* Variant: the sequence stored as passed, rich values not converted.
ToMsgs_NoConversion(parameters) == parameters

\* [i.to_parameter_msg() if isinstance(i, Parameter) else i for i in parameters]
ToMsgs(parameters) ==
    [k \in 1..Len(parameters) |->
        IF isinstance_Parameter(parameters[k])
        THEN to_parameter_msg(parameters[k])
        ELSE parameters[k]]

set_parameters(parameters, callback) ==
    /\ Enter([fn |-> "set_parameters", parameters |-> parameters,
              callback |-> callback])
    /\ call_async(clients["_set_parameter_client"],
                  [srv |-> "SetParameters", parameters |-> ToMsgs(parameters)])
    /\ UNCHANGED <<clients, ready>>
    /\ UNCHANGED waitVars

describe_parameters(names, callback) ==
    /\ Enter([fn |-> "describe_parameters", names |-> names, callback |-> callback])
    /\ call_async(clients["_describe_parameters_client"],
                  [srv |-> "DescribeParameters", names |-> names])
    /\ UNCHANGED <<clients, ready>>
    /\ UNCHANGED waitVars

\* Variant: the request sent through the client of get_parameters.
GetParameterTypesClient_Get == clients["_get_parameter_client"]

GetParameterTypesClient == clients["_get_parameter_types_client"]

get_parameter_types(names, callback) ==
    /\ Enter([fn |-> "get_parameter_types", names |-> names, callback |-> callback])
    /\ call_async(GetParameterTypesClient,
                  [srv |-> "GetParameterTypes", names |-> names])
    /\ UNCHANGED <<clients, ready>>
    /\ UNCHANGED waitVars

set_parameters_atomically(parameters, callback) ==
    /\ Enter([fn |-> "set_parameters_atomically", parameters |-> parameters,
              callback |-> callback])
    /\ call_async(clients["_set_parameters_atomically_client"],
                  [srv |-> "SetParametersAtomically",
                   parameters |-> ToMsgs(parameters)])
    /\ UNCHANGED <<clients, ready>>
    /\ UNCHANGED waitVars

\* [Parameter(name=i).to_parameter_msg() for i in names]
DeleteMsgs(names) ==
    [k \in 1..Len(names) |-> to_parameter_msg(ParameterOfName(names[k]))]

\* Variant: the request sent through the atomic client.
DeleteClient_Atomic == clients["_set_parameters_atomically_client"]

DeleteClient == clients["_set_parameter_client"]

delete_parameters(names, callback) ==
    /\ Enter([fn |-> "delete_parameters", names |-> names, callback |-> callback])
    /\ call_async(DeleteClient,
                  [srv |-> "SetParameters", parameters |-> DeleteMsgs(names)])
    /\ UNCHANGED <<clients, ready>>
    /\ UNCHANGED waitVars

\* Variant: the callback is never registered.
RegisterCallback_Never == UNCHANGED <<futures, cbLog>>

\* The tail shared by the seven operations:
\*     if callback: future.add_done_callback(callback)
\*     return future
RegisterCallback ==
    IF frame.callback # None
    THEN add_done_callback(future, frame.callback[1])
    ELSE UNCHANGED <<futures, cbLog>>

return_future ==
    /\ pc = "attach"
    /\ RegisterCallback
    /\ returned' = Append(returned, [fn |-> frame.fn, future |-> future,
                                      callback |-> frame.callback])
    /\ ret' = [kind |-> "future", val |-> future]
    /\ pc' = "idle"
    /\ UNCHANGED <<clients, ready, outbox, frame, future, calls>>
    /\ UNCHANGED waitVars

-----------------------------------------------------------------------------
(* wait_for_service.                                                       *)

client_wait_fns ==
    << clients["_list_parameter_client"],
       clients["_set_parameter_client"],
       clients["_get_parameter_client"],
       clients["_get_parameter_types_client"],
       clients["_describe_parameters_client"],
       clients["_set_parameters_atomically_client"] >>

\* One invocation of a client's wait_for_service, while it blocks.
WaitCall(c, timeout) ==
    [client |-> c, timeout |-> timeout, at |-> now, result |-> None, until |-> now]

Results == [k \in 1..Len(waitLog) |-> waitLog[k].result = Some(TRUE)]

ReturnBool(b) ==
    /\ ret' = [kind |-> "bool", val |-> b]
    /\ pc' = "idle"

\* Entry: build client_wait_fns, branch on timeout_sec, sample the clock.
wait_for_service(timeout) ==
    /\ Enter([fn |-> "wait_for_service", timeout_sec |-> timeout, t0 |-> now])
    /\ timeout_sec' = timeout
    /\ waitLog' = <<>>
    /\ fnIdx' = 1
    /\ ret' = NoReturn
    /\ IF timeout = None
       THEN pc' = "wait_all" /\ prev' = prev
       ELSE pc' = "loop" /\ prev' = now
    /\ UNCHANGED <<clients, ready, now>>
    /\ UNCHANGED callVars

\* Variant: a generator all(fn() for ...) stops at the first false result.
ListBuilt_ShortCircuit ==
    \/ fnIdx > Len(client_wait_fns)
    \/ ~all(Results)

\* all([fn() for fn in client_wait_fns]): the list is built in full, then
\* all() is applied to it.
ListBuilt == fnIdx > Len(client_wait_fns)

wait_all_call ==
    /\ pc = "wait_all"
    /\ ~ListBuilt
    /\ waitLog' = Append(waitLog, WaitCall(client_wait_fns[fnIdx], None))
    /\ pc' = "wait_all_blocked"
    /\ UNCHANGED <<clients, ready, frame, ret, calls, now, timeout_sec, prev, fnIdx>>
    /\ UNCHANGED callVars

wait_all_return ==
    /\ pc = "wait_all"
    /\ ListBuilt
    /\ ReturnBool(all(Results))
    /\ UNCHANGED <<clients, ready, frame, calls>>
    /\ UNCHANGED callVars
    /\ UNCHANGED waitVars

\* Variant: a spent budget (zero) already ends the call.
BudgetSpent_AfterToo == timeout_sec[1] <= 0

\* for wait_for_service in client_wait_fns:
\*     if timeout_sec < 0 or not wait_for_service(timeout_sec): return False
\* return True
BudgetSpent == timeout_sec[1] < 0

loop_next ==
    /\ pc = "loop"
    /\ IF fnIdx > Len(client_wait_fns)
       THEN ReturnBool(TRUE) /\ waitLog' = waitLog
       ELSE IF BudgetSpent
            THEN ReturnBool(FALSE) /\ waitLog' = waitLog
            ELSE /\ waitLog' = Append(waitLog, WaitCall(client_wait_fns[fnIdx], timeout_sec))
                 /\ pc' = "blocked"
                 /\ ret' = ret
    /\ UNCHANGED <<clients, ready, frame, calls, now, timeout_sec, prev, fnIdx>>
    /\ UNCHANGED callVars

\* ClientHandle.waitReady returns: the service was seen ready, or it was not.
WaitReturned(b) ==
    [waitLog EXCEPT ![Len(waitLog)].result = Some(b), ![Len(waitLog)].until = now]

client_wait_returns(b) ==
    /\ pc \in {"blocked", "wait_all_blocked"}
    /\ waitLog' = WaitReturned(b)
    /\ IF pc = "wait_all_blocked"
       THEN pc' = "wait_all" /\ fnIdx' = fnIdx + 1 /\ ret' = ret
       ELSE IF b
            THEN pc' = "sample_elapsed" /\ fnIdx' = fnIdx /\ ret' = ret
            ELSE ReturnBool(FALSE) /\ fnIdx' = fnIdx
    /\ UNCHANGED <<clients, ready, frame, calls, now, timeout_sec, prev>>
    /\ UNCHANGED callVars

\* timeout_sec -= time.time() - prev
sample_elapsed ==
    /\ pc = "sample_elapsed"
    /\ timeout_sec' = Some(timeout_sec[1] - (now - prev))
    /\ pc' = "sample_prev"
    /\ UNCHANGED <<clients, ready, frame, ret, calls, now, prev, fnIdx, waitLog>>
    /\ UNCHANGED callVars

\* prev = time.time()
sample_prev ==
    /\ pc = "sample_prev"
    /\ prev' = now
    /\ fnIdx' = fnIdx + 1
    /\ pc' = "loop"
    /\ UNCHANGED <<clients, ready, frame, ret, calls, now, timeout_sec, waitLog>>
    /\ UNCHANGED callVars

\* Time passes while the bounded wait runs.
Tick ==
    /\ pc \in {"loop", "blocked", "sample_elapsed", "sample_prev"}
    /\ now < MaxTime
    /\ now' = now + 1
    /\ UNCHANGED <<clients, ready, pc, frame, ret, calls, timeout_sec, prev, fnIdx, waitLog>>
    /\ UNCHANGED callVars

-----------------------------------------------------------------------------
(* Properties.                                                             *)

Operations ==
    {"list_parameters", "get_parameters", "set_parameters", "describe_parameters",
     "get_parameter_types", "set_parameters_atomically", "delete_parameters"}

\* The endpoint each operation is documented to use.
EndpointOf(fn) == IF fn = "delete_parameters" THEN "set_parameters" ELSE fn

\* A step in which operation fn is called.
Called(fn) == calls' = calls + 1 /\ frame'.fn = fn

\* The request the step sent last to endpoint e.
Sent(e) == outbox'[e][Len(outbox'[e])]

\* The step dispatched exactly one request, to endpoint e and to no other.
DispatchedOnly(e) ==
    /\ outbox'[e] # <<>>
    /\ outbox' = [outbox EXCEPT ![e] = Append(@, Sent(e))]

\* The step changed nothing of the client but the call's own bookkeeping and
\* one new pending Future.
OnlyNewFuture ==
    /\ clients' = clients
    /\ ready' = ready
    /\ futures' = Append(futures, NewFuture)
    /\ cbLog' = cbLog
    /\ returned' = returned

Invocations(f) == Cardinality({k \in 1..Len(cbLog) : cbLog[k].future = f})

\* C1: a callback passed to an operation is invoked exactly once, and only
\* after the returned Future has completed: never while the Future is
\* pending, never twice, and once the Future is completed and the operation
\* has returned it has been invoked, whether the response arrived before or
\* after add_done_callback registered it.
C1_CallbackExactlyOnce ==
    /\ \A k \in 1..Len(cbLog) : cbLog[k].state # "pending"
    /\ pc = "attach" => Invocations(future) = 0
    /\ \A r \in 1..Len(returned) :
          LET f == returned[r].future
          IN  IF returned[r].callback = None
              THEN Invocations(f) = 0
              ELSE Invocations(f) = IF futures[f].state = "pending" THEN 0 ELSE 1

\* C1 witness: the response arrived after call_async returned and before the
\* callback was registered, and the callback has been invoked once.
C1_Witness ==
    /\ pc = "idle"
    /\ \E r \in 1..Len(returned) :
          /\ returned[r].callback # None
          /\ Invocations(returned[r].future) = 1
          /\ \E k \in 1..Len(cbLog) :
                /\ cbLog[k].future = returned[r].future
                /\ cbLog[k].by = "add_done_callback"

C4_ReadyIffAllSix ==
    [][Called("service_is_ready") =>
          /\ ret' = [kind |-> "bool", val |-> \A s \in Services : ready[s]]
          /\ pc' = "idle"]_vars

\* C4 witness: service_is_ready has returned false with exactly one of the
\* six endpoints not ready.
C4_Witness ==
    /\ frame.fn = "service_is_ready"
    /\ ret = [kind |-> "bool", val |-> FALSE]
    /\ Cardinality({s \in Services : ~ready[s]}) = 1

NameOperations == {"get_parameters", "get_parameter_types", "describe_parameters"}

\* C6: get_parameters(N), get_parameter_types(N) and describe_parameters(N),
\* on an established link, dispatch exactly one request, to their own endpoint
\* and to no other, carrying N unmodified, and change nothing else than the
\* new pending Future; the six endpoint handles stay the same.
C6_NamesForwarded ==
    [][\A fn \in NameOperations :
          (Called(fn) /\ ready[fn]) =>
              /\ DispatchedOnly(fn)
              /\ Sent(fn).names = frame'.names
              /\ OnlyNewFuture]_vars

\* C6 witness: get_parameter_types has dispatched two different names, in
\* the caller's order, to its own endpoint.
C6_Witness ==
    /\ pc = "attach"
    /\ frame.fn = "get_parameter_types"
    /\ frame.names = <<"b", "a">>
    /\ Len(outbox["get_parameter_types"]) = 1
    /\ outbox["get_parameter_types"][1].names = <<"b", "a">>

\* The descriptor m carries the name, type and value of the rich value p.
SameParameter(p, m) ==
    /\ m.cls = "ParameterMsg"
    /\ m.name = p.name
    /\ CASE p.type_ = "BOOL" ->
              /\ m.value.type = 1
              /\ p.value = IF m.value.bool_value THEN "True" ELSE "False"
         [] p.type_ = "INTEGER" ->
              /\ m.value.type = 2
              /\ p.value = ToString(m.value.integer_value)
         [] p.type_ = "NOT_SET" ->
              /\ m.value.type = 0
              /\ p.value = "None"

\* C7: set_parameters(P) and set_parameters_atomically(P), on an established
\* link, dispatch exactly one request, to their own endpoint, whose
\* descriptors have the length and order of P: a serialized descriptor passes
\* through unchanged, a rich value becomes a descriptor with the same name,
\* type and value.
C7_DescriptorsForwarded ==
    [][\A fn \in {"set_parameters", "set_parameters_atomically"} :
          (Called(fn) /\ ready[fn]) =>
              /\ DispatchedOnly(fn)
              /\ Len(Sent(fn).parameters) = Len(frame'.parameters)
              /\ \A k \in 1..Len(frame'.parameters) :
                    IF frame'.parameters[k].cls = "ParameterMsg"
                    THEN Sent(fn).parameters[k] = frame'.parameters[k]
                    ELSE SameParameter(frame'.parameters[k], Sent(fn).parameters[k])]_vars

\* C7 witness: set_parameters_atomically has dispatched a rich value followed
\* by a serialized descriptor.
C7_Witness ==
    /\ pc = "attach"
    /\ frame.fn = "set_parameters_atomically"
    /\ Len(frame.parameters) = 2
    /\ frame.parameters[1].cls = "Parameter"
    /\ frame.parameters[1].type_ = "INTEGER"
    /\ frame.parameters[2].cls = "ParameterMsg"
    /\ Len(outbox["set_parameters_atomically"]) = 1
    /\ outbox["set_parameters"] = <<>>

\* C8: delete_parameters(N) for a non-empty N, on an established link,
\* dispatches exactly one request, through the endpoint of set_parameters and
\* never the atomic one, with one descriptor per name, in the order of N, each
\* with that name and a not-set type and no value.
C8_DeleteDescriptors ==
    [][(Called("delete_parameters") /\ frame'.names # <<>> /\ ready["set_parameters"]) =>
          /\ DispatchedOnly("set_parameters")
          /\ Len(Sent("set_parameters").parameters) = Len(frame'.names)
          /\ \A k \in 1..Len(frame'.names) :
                /\ Sent("set_parameters").parameters[k].name = frame'.names[k]
                /\ Sent("set_parameters").parameters[k].value =
                       [type |-> 0, bool_value |-> FALSE, integer_value |-> 0]]_vars

\* C8 witness: delete_parameters has dispatched two names through the
\* set_parameters endpoint.
C8_Witness ==
    /\ pc = "attach"
    /\ frame.fn = "delete_parameters"
    /\ frame.names = <<"b", "a">>
    /\ Len(outbox["set_parameters"]) = 1
    /\ Len(outbox["set_parameters"][1].parameters) = 2
    /\ outbox["set_parameters_atomically"] = <<>>

\* C9: list_parameters(prefixes, depth), on an established link, dispatches
\* exactly one request to the list endpoint; its depth is the given depth,
\* whatever integer it is; its prefixes are the given ones when that sequence
\* is non-empty, and empty when prefixes is None or empty.
C9_ListRequest ==
    [][(Called("list_parameters") /\ ready["list_parameters"]) =>
          /\ DispatchedOnly("list_parameters")
          /\ Sent("list_parameters").depth = frame'.depth
          /\ \/ frame'.prefixes = None /\ Sent("list_parameters").prefixes = <<>>
             \/ /\ frame'.prefixes # None
                /\ Sent("list_parameters").prefixes = frame'.prefixes[1]]_vars

\* C9 witness: list_parameters(None, -1) has dispatched a request with no
\* prefixes and depth -1.
C9_Witness ==
    /\ pc = "attach"
    /\ frame.fn = "list_parameters"
    /\ frame.prefixes = None
    /\ frame.depth = -1
    /\ outbox["list_parameters"] = <<[srv |-> "ListParameters", prefixes |-> <<>>, depth |-> -1]>>

\* A wait_for_service call with (Timed) or without (Untimed) a budget, and
\* its having returned.
Timed == frame.fn = "wait_for_service" /\ frame.timeout_sec # None
Untimed == frame.fn = "wait_for_service" /\ frame.timeout_sec = None
Returned == pc = "idle" /\ ret.kind = "bool"

\* The documented order of the six waits.
WaitOrder ==
    <<"list_parameters", "set_parameters", "get_parameters",
      "get_parameter_types", "describe_parameters", "set_parameters_atomically">>

AllWaitsTrue ==
    /\ Len(waitLog) = Len(WaitOrder)
    /\ \A k \in 1..Len(waitLog) : waitLog[k].result = Some(TRUE)

\* C5: wait_for_service(None) invokes all six waits, each with no timeout,
\* also after an earlier one returned false, and returns true if and only if
\* all six returned true.
C5_UntimedWaitsAll ==
    (Untimed /\ Returned) =>
        /\ Len(waitLog) = Len(WaitOrder)
        /\ \A k \in 1..Len(waitLog) :
              /\ waitLog[k].client = WaitOrder[k]
              /\ waitLog[k].timeout = None
              /\ waitLog[k].result # None
        /\ ret.val <=> AllWaitsTrue

\* C5 witness: the first wait returned false, the other five were invoked
\* all the same, and the call returned false.
C5_Witness ==
    /\ Untimed /\ Returned
    /\ Len(waitLog) = Len(WaitOrder)
    /\ waitLog[1].result = Some(FALSE)
    /\ ret.val = FALSE

\* The waits run one after the other in the fixed order, each one only after
\* all earlier ones returned true and with a budget that is not negative.
SequentialWaits ==
    /\ Len(waitLog) <= Len(WaitOrder)
    /\ \A k \in 1..Len(waitLog) :
          /\ waitLog[k].client = WaitOrder[k]
          /\ waitLog[k].timeout[1] >= 0
          /\ k < Len(waitLog) => waitLog[k].result = Some(TRUE)

\* The first wait took longer than the whole budget T.
FirstWaitOverran ==
    /\ Len(waitLog) >= 1
    /\ waitLog[1].result # None
    /\ waitLog[1].until - waitLog[1].at > frame.timeout_sec[1]

\* C3 as stated: sequential waits in the fixed order; false the instant a
\* wait returns false or the budget goes negative, later waits not invoked;
\* true only if all six waits returned true and the budget never went
\* negative.
C3_TrueOnlyWithinBudget ==
    Timed =>
        /\ SequentialWaits
        /\ FirstWaitOverran => Len(waitLog) = 1 /\ (Returned => ~ret.val)
        /\ (Returned /\ ret.val) => AllWaitsTrue /\ timeout_sec[1] >= 0

\* C3 amended: sequential waits in the fixed order; the budget is looked at
\* only before a wait is invoked: a negative budget there, or a wait that
\* returns false, ends the call with false and no later wait is invoked; the
\* call returns true if and only if all six waits were invoked and returned
\* true, also when the sixth wait left the budget negative.
C3_BudgetCheckedBeforeEachWait ==
    Timed =>
        /\ SequentialWaits
        /\ FirstWaitOverran => Len(waitLog) = 1 /\ (Returned => ~ret.val)
        /\ Returned => (ret.val <=> AllWaitsTrue)
        /\ (Returned /\ ~ret.val) =>
              \/ waitLog # <<>> /\ waitLog[Len(waitLog)].result = Some(FALSE)
              \/ /\ timeout_sec[1] < 0
                 /\ Len(waitLog) < Len(WaitOrder)
                 /\ \A k \in 1..Len(waitLog) : waitLog[k].result = Some(TRUE)

\* C3 witness: the first wait took longer than the budget and returned true;
\* no other wait was invoked and the call returned false.
C3_Witness ==
    /\ Timed /\ Returned
    /\ FirstWaitOverran
    /\ waitLog[1].result = Some(TRUE)
    /\ Len(waitLog) = 1
    /\ ret.val = FALSE

\* C10 as stated: every wait is given the remaining budget, T minus all the
\* time that passed from the start of wait_for_service to the latest clock
\* sample; the timeouts given are non-increasing and never exceed T.
C10_RemainingBudget ==
    Timed =>
        /\ \A k \in 1..Len(waitLog) :
              /\ waitLog[k].timeout[1] <= frame.timeout_sec[1]
              /\ k > 1 => waitLog[k].timeout[1] <= waitLog[k - 1].timeout[1]
        /\ Len(waitLog) >= 1 => waitLog[1].timeout = frame.timeout_sec
        /\ pc = "blocked" =>
              waitLog[Len(waitLog)].timeout[1] = frame.timeout_sec[1] - (prev - frame.t0)

-----------------------------------------------------------------------------
(* Specifications.                                                         *)

Depths == {-1, 0, 1, 2}
Prefixes == {None} \cup {Some(s) : s \in NameSeqs}

\* The client among links that come and go, responses that arrive at any
\* time and callers that may or may not pass a callback.
Next ==
    \/ service_is_ready
    \/ \E cb \in Callbacks : list_parameters(None, 1, cb)
    \/ \E cb \in Callbacks : get_parameters(<<"a">>, cb)
    \/ \E cb \in Callbacks : set_parameters(<<Parameter("a", "BOOL", "True")>>, cb)
    \/ \E cb \in Callbacks : describe_parameters(<<"a">>, cb)
    \/ \E cb \in Callbacks : get_parameter_types(<<"a">>, cb)
    \/ \E cb \in Callbacks : set_parameters_atomically(<<Parameter("a", "BOOL", "True")>>, cb)
    \/ \E cb \in Callbacks : delete_parameters(<<"a">>, cb)
    \/ return_future
    \/ set_result
    \/ set_exception
    \/ \E s \in Services, b \in BOOLEAN : SetReady(s, b)

Spec == Init /\ [][Next]_vars

\* The requests the operations build, over all arguments, on established links.
NextRequests ==
    \/ \E p \in Prefixes, d \in Depths : list_parameters(p, d, None)
    \/ \E n \in NameSeqs : get_parameters(n, None)
    \/ \E P \in ParameterSeqs : set_parameters(P, None)
    \/ \E n \in NameSeqs : describe_parameters(n, None)
    \/ \E n \in NameSeqs : get_parameter_types(n, None)
    \/ \E P \in ParameterSeqs : set_parameters_atomically(P, None)
    \/ \E n \in NameSeqs : delete_parameters(n, None)
    \/ return_future

SpecRequests == InitReady /\ [][NextRequests]_vars

\* wait_for_service with and without a budget, against waits that take any
\* time and end either way.
Timeouts == {None} \cup {Some(t) : t \in -1..MaxTime}

NextWait ==
    \/ \E t \in Timeouts : wait_for_service(t)
    \/ wait_all_call
    \/ wait_all_return
    \/ loop_next
    \/ \E b \in BOOLEAN : client_wait_returns(b)
    \/ sample_elapsed
    \/ sample_prev
    \/ Tick

SpecWait == Init /\ [][NextWait]_vars

====
